---- MODULE Spec2Model ----
(***************************************************************************)
(* MinutAI server (src/server.js): the /api/process pipeline               *)
(* (upload -> Deepgram -> OpenAI record -> OpenAI summary -> PDF render),  *)
(* the /api/regenerate-pdf operation, and the upload directory they share. *)
(* One Node.js event loop runs all requests: every action below is one run *)
(* of synchronous code between two suspension points (await / callback).   *)
(***************************************************************************)
EXTENDS Integers, Sequences, FiniteSets, TLC

\* ------------------------------------------------------------------ bounds
\* Date.now() takes the values 0..MaxClock (milliseconds).
MaxClock == 1

\* A provider response carries at most MaxUtts utterances.
MaxUtts == 2

\* A markup document has at most MaxBlocks top-level blocks.
MaxBlocks == 2

\* The requests in flight, numbered in the order they arrive; each is a
\* pipeline run or a regenerate call.
Reqs == {1, 2}

\* ------------------------------------------------------- names on disk
\* file.originalname values, as sequences of characters.
OrigNames == { <<"a", " ", "#">>, <<"a", "_", "#">> }

IsSpace(c) == c = " "

\* originalname.replace(/\s+/g, '_'): every maximal run of whitespace becomes
\* one underscore.
RECURSIVE Sanitize(_)
Sanitize(s) ==
  IF s = <<>> THEN <<>>
  ELSE IF IsSpace(Head(s))
       THEN IF Len(s) > 1 /\ IsSpace(s[2])
            THEN Sanitize(Tail(s))
            ELSE <<"_">> \o Sanitize(Tail(s))
       ELSE <<Head(s)>> \o Sanitize(Tail(s))

\* A file name of the upload directory, kept as the parts the code concatenates:
\* pre ++ tick ++ base ++ ext.
\* Date.now() + '-' + file.originalname.replace(/\s+/g,'_')
UploadName(t, orig) ==
  [pre |-> "", tick |-> t, base |-> <<"-">> \o Sanitize(orig), ext |-> ""]

\* path.basename(filePath) + '.pdf'
PdfNameOf(uploadName) == [uploadName EXCEPT !.ext = ".pdf"]

\* `regen-${Date.now()}.pdf`
RegenName(t) == [pre |-> "regen-", tick |-> t, base |-> <<>>, ext |-> ".pdf"]

\* The characters of this model that encodeURIComponent leaves as they are.
Unreserved == {"a", "_", "-"}

\* The escape encodeURIComponent writes for a character it does not leave.
PercentEncoded(c) ==
  CASE c = "#" -> "%23"
    [] c = " " -> "%20"

\* encodeURIComponent(s), character by character.
EncodeURIComponent(s) ==
  [i \in 1..Len(s) |-> IF s[i] \in Unreserved THEN s[i] ELSE PercentEncoded(s[i])]

\* The decoding Express applies to a route parameter.
DecodeURIComponent(s) ==
  [i \in 1..Len(s) |-> CASE s[i] = "%23" -> "#"
                          [] s[i] = "%20" -> " "
                          [] OTHER -> s[i]]

\* `/download/${encodeURIComponent(pdfName)}`: the literal parts of a name
\* (its prefix, the clock reading's digits, ".pdf") are unreserved.
PdfUrl(n) ==
  [route |-> "/download/", name |-> [n EXCEPT !.base = EncodeURIComponent(n.base)]]

\* req.params.name of GET /download/:name for the locator url.
RouteParam(url) == [url.name EXCEPT !.base = DecodeURIComponent(url.name.base)]

\* ------------------------------------------------------ upload directory
\* The directory is a function from the names present to what each file holds:
\* the request that wrote it, its kind and whether its writer has finished.
WriteFile(fs, n, info) ==
  [x \in (DOMAIN fs) \cup {n} |-> IF x = n THEN info ELSE fs[x]]

RemoveFile(fs, n) == [x \in (DOMAIN fs) \ {n} |-> fs[x]]

Exists(fs, n) == n \in DOMAIN fs

\* ------------------------------------------------ transcription provider
\* A time value of the provider response: a number (in milliseconds here) or
\* something that is not a number (missing, null, a string).
Num(ms) == [isNum |-> TRUE, ms |-> ms]
NotNum == [isNum |-> FALSE, ms |-> 0]

\* One utterance of the response; hasSpeaker is u.speaker !== undefined.
Utt(has, sp, s, e, txt) ==
  [hasSpeaker |-> has, speaker |-> sp, start |-> s, end |-> e, transcript |-> txt]

\* dgResp after the call: null when the call rejected, otherwise the response
\* with the parts that may be missing marked.
NullResp ==
  [isNull |-> TRUE, hasTranscript |-> FALSE, transcript |-> "",
   hasUtterances |-> FALSE, utterances |-> <<>>]

DgResp(hasT, t, hasU, us) ==
  [isNull |-> FALSE, hasTranscript |-> hasT, transcript |-> t,
   hasUtterances |-> hasU, utterances |-> us]

\* The responses the provider answers with in this model.
DgResponses ==
  { DgResp(TRUE, "hola buenos dias", FALSE, <<>>),
    DgResp(TRUE, "hola buenos dias", TRUE,
           << Utt(TRUE, 0, Num(0), Num(2500), "Hola"),
              Utt(FALSE, 0, Num(2600), NotNum, "Buenos dias") >>) }

\* dgResp?.results?.channels?.[0]?.alternatives?.[0]?.transcript || ''
ExtractTranscript(resp) ==
  IF resp.isNull \/ ~resp.hasTranscript THEN "" ELSE resp.transcript

\* dgResp?.results?.utterances || []
ExtractUtterances(resp) ==
  IF resp.isNull \/ ~resp.hasUtterances THEN <<>> ELSE resp.utterances

\* secs.toFixed(2): the value rounded to hundredths, as its integer part and
\* its two decimals. (A value halfway between two hundredths is rounded by its
\* binary expansion; no time of this model is such a value.)
ToFixed2(ms) ==
  LET cs == (ms + 5) \div 10
  IN  << cs \div 100, (cs % 100) \div 10, cs % 10 >>

\* fmtTime(secs)
FmtTime(t) ==
  IF ~t.isNum THEN [digits |-> <<0, 0, 0>>, unit |-> ""]
  ELSE [digits |-> ToFixed2(t.ms), unit |-> "s"]

\* The label of utterance i (1-based) on its diarized line.
LineSpeaker(u, i) == IF u.hasSpeaker THEN u.speaker ELSE i

FallbackMarker == "No se pudo transcribir con Deepgram."

\* A diarized text that starts from the flat transcript whenever there is one.
DiarizedText_FlatFirst(transcript, utterances) ==
  IF transcript # "" \/ Len(utterances) = 0
  THEN [flat |-> IF transcript # "" THEN transcript ELSE FallbackMarker,
        lines |-> <<>>]
  ELSE [flat |-> "",
        lines |-> [i \in 1..Len(utterances) |->
                     [start |-> FmtTime(utterances[i].start),
                      end |-> FmtTime(utterances[i].end),
                      speaker |-> LineSpeaker(utterances[i], i),
                      text |-> utterances[i].transcript]]]

\* diarized_text: one line per utterance, or the flat transcript, or the marker.
DiarizedText(transcript, utterances) ==
  IF Len(utterances) > 0
  THEN [flat |-> "",
        lines |-> [i \in 1..Len(utterances) |->
                     [start |-> FmtTime(utterances[i].start),
                      end |-> FmtTime(utterances[i].end),
                      speaker |-> LineSpeaker(utterances[i], i),
                      text |-> utterances[i].transcript]]]
  ELSE [flat |-> IF transcript # "" THEN transcript ELSE FallbackMarker,
        lines |-> <<>>]

\* The speaker labels of the complete payload.
Speakers(utterances) ==
  { IF utterances[i].hasSpeaker THEN utterances[i].speaker ELSE 0 :
      i \in 1..Len(utterances) }

\* --------------------------------------------------- language-model provider
\* message.content of a response: a string, null or undefined.
Str(s) == [tag |-> "string", s |-> s]
Null == [tag |-> "null", s |-> ""]
Undefined == [tag |-> "undefined", s |-> ""]

\* A chat completion: with a first choice carrying a content, or with no
\* choices entry at all.
Choice(c) == [hasChoice |-> TRUE, content |-> c]
NoChoices == [hasChoice |-> FALSE, content |-> Undefined]

\* The texts JSON.parse accepts, among those of this model.
WellFormedJson == { "{}", "null" }

MinutaResponses ==
  { Choice(Str("{}")), Choice(Str("Claro, aqui esta la minuta")),
    Choice(Null), Choice(Undefined), NoChoices }

ResumenResponses == { Choice(Str("# Resumen")), NoChoices }

\* String(v), the conversion JSON.parse applies to its argument.
JsString(c) ==
  CASE c.tag = "string" -> c.s
    [] c.tag = "null" -> "null"
    [] c.tag = "undefined" -> "undefined"

\* JSON.parse(v): the parsed value, or a SyntaxError.
JsonParse(c) ==
  IF JsString(c) \in WellFormedJson
  THEN [threw |-> FALSE, value |-> [kind |-> "parsed", of |-> JsString(c)]]
  ELSE [threw |-> TRUE, value |-> [kind |-> "none", of |-> ""]]

\* The minuta value of the try/catch around JSON.parse: parsed, or the wrapper
\* { raw: content }; a response without choices throws a TypeError in the try
\* block and again in the catch block.
ParseMinuta(resp) ==
  IF ~resp.hasChoice
  THEN [threw |-> TRUE, kind |-> "none", of |-> Undefined]
  ELSE LET r == JsonParse(resp.content)
       IN  IF r.threw
           THEN [threw |-> FALSE, kind |-> "raw", of |-> resp.content]
           ELSE [threw |-> FALSE, kind |-> "parsed", of |-> resp.content]

\* resumenResp.choices[0].message.content || ''
ResumenMd(resp) ==
  IF ~resp.hasChoice THEN [threw |-> TRUE, md |-> ""]
  ELSE [threw |-> FALSE,
        md |-> IF resp.content.tag = "string" THEN resp.content.s ELSE ""]

\* How a generation call's response looks.
Shape(resp) ==
  IF ~resp.hasChoice THEN "no choices"
  ELSE IF resp.content.tag # "string" THEN resp.content.tag
  ELSE IF resp.content.s \in WellFormedJson THEN "json" ELSE "text"

\* err.message of the failures the pipeline reports.
TimeoutMsg == "PDF generation timed out after 30s"
ReadErrMsg == "ENOENT: no such file or directory"
RecordErrMsg == "record generation failed"
SummaryErrMsg == "summary generation failed"
TypeErrMsg == "Cannot read properties of undefined"
WalkErrMsg == "render walk threw"
StreamErrMsg == "write stream error"
DgErrMsg == "transcription failed"

\* --------------------------------------------------------------- state
VARIABLES
  now,           \* the last reading of Date.now()
  files,         \* the upload directory: name -> [owner, kind, complete]
  pc,            \* where each request is
  kind,          \* which operation the request is ("none" before it arrives)
  uploadErr,     \* the error multer hands to its callback ("" when none)
  filePath,      \* req.file.path (NoName when no file was supplied)
  audioOwner,    \* the requests whose bytes readFileSync returned (none, or one)
  transcript,    \* the flat transcript string
  utterances,    \* the utterance sequence
  diarized_text, \* the diarized text sent to the generator
  minutaResp,    \* the structured-record response
  minuta,        \* the structured record
  resumen_md,    \* the narrative markup
  pdfName,       \* the document's name (NoName before rendering)
  stream,        \* the document write stream
  timer,         \* the 30 s timer of the race
  trace,         \* per request, in order: what it wrote to res, the calls it
                 \* made to its collaborators and how they settled, its unlink
  payload,       \* the data of the complete event / of the 200 answer
  text,          \* one run of the transcript post-processing, step by step
  doc            \* one run of renderMarkdownToPDF: the walker and the document

vars ==
  << now, files, pc, kind, uploadErr, filePath, audioOwner, transcript, utterances,
     diarized_text, minutaResp, minuta, resumen_md, pdfName, stream, timer,
     trace, payload, text, doc >>

\* The server's variables.
server ==
  << now, files, pc, kind, uploadErr, filePath, audioOwner, transcript, utterances,
     diarized_text, minutaResp, minuta, resumen_md, pdfName, stream, timer,
     trace, payload >>

NoName == [pre |-> "", tick |-> 0 - 1, base |-> <<>>, ext |-> ""]
NoUrl == [route |-> "", name |-> NoName]
NoMinuta == [kind |-> "none", of |-> Undefined]
NoDiarized == [flat |-> "", lines |-> <<>>]
NoPayload ==
  [sent |-> FALSE, minuta |-> NoMinuta, resumen_md |-> "", pdf_url |-> NoUrl,
   speakers |-> {}, transcript |-> "", utterances_count |-> 0]

\* No post-processing run, no render run.
NoText == [stage |-> "none"]
NoDoc == [stage |-> "none"]

\* One entry of a request's trace.
E(k, v) == [k |-> k, v |-> v]

\* The server after startup: no request has arrived.
Idle ==
  /\ now = 0
  /\ files = << >>
  /\ pc = [r \in Reqs |-> "new"]
  /\ kind = [r \in Reqs |-> "none"]
  /\ uploadErr = [r \in Reqs |-> ""]
  /\ filePath = [r \in Reqs |-> NoName]
  /\ audioOwner = [r \in Reqs |-> {}]
  /\ transcript = [r \in Reqs |-> ""]
  /\ utterances = [r \in Reqs |-> <<>>]
  /\ diarized_text = [r \in Reqs |-> NoDiarized]
  /\ minutaResp = [r \in Reqs |-> NoChoices]
  /\ minuta = [r \in Reqs |-> NoMinuta]
  /\ resumen_md = [r \in Reqs |-> ""]
  /\ pdfName = [r \in Reqs |-> NoName]
  /\ stream = [r \in Reqs |-> "none"]
  /\ timer = [r \in Reqs |-> "none"]
  /\ trace = [r \in Reqs |-> <<>>]
  /\ payload = [r \in Reqs |-> NoPayload]

Init ==
  /\ Idle
  /\ text = NoText
  /\ doc = NoDoc

\* Synchronous code cannot be preempted: while one request's synchronous call
\* does not return, the event loop runs no other callback and no timer.
EventLoopFree == \A r \in Reqs : pc[r] # "stalled"

\* Request r arrives: those numbered before it have arrived.
Arrives(r) == pc[r] = "new" /\ \A q \in Reqs : q < r => pc[q] # "new"

\* Date.now() is read: the clock does not run backwards, so the reading is
\* the last one or a later one.
Readings == now..MaxClock

\* ------------------------------------------------------ /api/process
\* A storage that leaves the truncated file of an oversized upload in place.
Stored_KeepsOversized(fs, p, n, what) ==
  IF what = "nofile" THEN fs
  ELSE WriteFile(fs, n, [owner |-> p, kind |-> "upload", complete |-> what = "file"])

\* The upload directory after multer's disk storage handled the request's file
\* part: the file written under its name n, nothing for a request without a
\* file part, and the file written and removed again when it passed the limit.
Stored(fs, p, n, what) ==
  CASE what = "file" ->
         WriteFile(fs, n, [owner |-> p, kind |-> "upload", complete |-> TRUE])
    [] what = "nofile" -> fs
    [] what = "toolarge" -> RemoveFile(fs, n)

\* multer's upload.single('file'): the storage names the file from Date.now()
\* and the sanitized original name and writes it into the upload directory
\* (over a file of that name, if there is one). A request without a file part
\* gets no req.file; a file over the size limit is removed again by multer,
\* which hands LIMIT_FILE_SIZE to the callback.
UploadFile(p) ==
  /\ EventLoopFree
  /\ Arrives(p)
  /\ kind' = [kind EXCEPT ![p] = "process"]
  /\ \E orig \in OrigNames, what \in {"file", "nofile", "toolarge"}, t \in Readings :
       LET n == UploadName(t, orig)
       IN  /\ now' = t
           /\ files' = Stored(files, p, n, what)
           /\ filePath' = [filePath EXCEPT ![p] = IF what = "file" THEN n ELSE NoName]
           /\ uploadErr' = [uploadErr EXCEPT
                              ![p] = IF what = "toolarge" THEN "LIMIT_FILE_SIZE" ELSE ""]
  /\ pc' = [pc EXCEPT ![p] = "parsed"]
  /\ UNCHANGED << text, doc, audioOwner, transcript, utterances, diarized_text,
                  minutaResp, minuta, resumen_md, pdfName, stream, timer,
                  trace, payload >>

\* A catch block that forgets res.end().
CatchEntries_NoEnd(detail) == << E("sse:error", detail) >>

\* The catch block: the terminal error event, then res.end().
CatchEntries(detail) == << E("sse:error", detail), E("end", "") >>

\* The end of the try block: the terminal complete event, then res.end().
CompleteEntries == << E("sse:complete", ""), E("end", "") >>

\* The finally block: try { fs.unlinkSync(filePath) } catch (e) { /* ignore */ }
FinallyEntries(ok) == << E("unlink", IF ok THEN "ok" ELSE "failed") >>

\* A finally block whose unlink never removes the file.
Unlinked_Skipped(fs, path, ok) == fs

Unlinked(fs, path, ok) == IF ok THEN RemoveFile(fs, path) ELSE fs

\* The handler's local variables.
locals ==
  << audioOwner, transcript, utterances, diarized_text, minutaResp, minuta,
     resumen_md >>

\* The handler returns: its local variables are gone.
DropLocals(p) ==
  /\ audioOwner' = [audioOwner EXCEPT ![p] = {}]
  /\ transcript' = [transcript EXCEPT ![p] = ""]
  /\ utterances' = [utterances EXCEPT ![p] = <<>>]
  /\ diarized_text' = [diarized_text EXCEPT ![p] = NoDiarized]
  /\ minutaResp' = [minutaResp EXCEPT ![p] = NoChoices]
  /\ minuta' = [minuta EXCEPT ![p] = NoMinuta]
  /\ resumen_md' = [resumen_md EXCEPT ![p] = ""]

\* How a pipeline run leaves the handler: `entries` are what the try or the
\* catch block wrote last, fs is the directory as the step left it, and the
\* finally block unlinks the upload; the unlink throws when the file is gone
\* and may throw for the file system's own reasons (permissions).
Leave(p, fs, entries) ==
  /\ \E ok \in BOOLEAN :
       /\ ok => Exists(fs, filePath[p])
       /\ files' = Unlinked(fs, filePath[p], ok)
       /\ trace' = [trace EXCEPT ![p] = @ \o entries \o FinallyEntries(ok)]
  /\ pc' = [pc EXCEPT ![p] = "done"]
  /\ DropLocals(p)

\* The validation failures: multer's error, or no req.file. A synchronous JSON
\* answer with status 400; the stream is never opened.
RejectUpload(p) ==
  /\ EventLoopFree
  /\ pc[p] = "parsed"
  /\ uploadErr[p] # "" \/ filePath[p] = NoName
  /\ trace' = [trace EXCEPT ![p] = @ \o << E("json:400", IF uploadErr[p] # ""
                                                        THEN uploadErr[p]
                                                        ELSE "No se recibio archivo") >>]
  /\ pc' = [pc EXCEPT ![p] = "rejected"]
  /\ UNCHANGED << text, doc, now, kind, files, uploadErr, filePath, audioOwner, transcript,
                  utterances, diarized_text, minutaResp, minuta, resumen_md,
                  pdfName, stream, timer, payload >>

\* What the handler writes before the first await.
BeginEntries == << E("writeHead", "200"), E("sse:progress", "transcribing") >>

\* The handler up to its first await: the stream is opened, the first progress
\* event written, the audio read (readFileSync throws when the file is gone, or
\* for the file system's own reasons) and the transcription call issued.
BeginProcess(p) ==
  /\ EventLoopFree
  /\ pc[p] = "parsed"
  /\ uploadErr[p] = "" /\ filePath[p] # NoName
  /\ \E readOk \in BOOLEAN :
       /\ readOk => Exists(files, filePath[p])
       /\ IF readOk
          THEN /\ trace' = [trace EXCEPT
                              ![p] = @ \o BeginEntries \o << E("call:deepgram", "") >>]
               /\ audioOwner' = [audioOwner EXCEPT ![p] = {files[filePath[p]].owner}]
               /\ pc' = [pc EXCEPT ![p] = "transcribing"]
               /\ UNCHANGED << files, transcript, utterances, diarized_text,
                               minutaResp, minuta, resumen_md >>
          ELSE Leave(p, files, BeginEntries \o CatchEntries(ReadErrMsg))
  /\ UNCHANGED << text, doc, now, kind, uploadErr, filePath, pdfName, stream, timer, payload >>

\* What follows the transcription call, up to the structured-record call.
AfterTranscription ==
  << E("sse:progress", "transcribed"), E("sse:progress", "record"),
     E("call:record", "") >>

\* The handler from the settled transcription call to the structured-record
\* call: extraction, the diarized text, two progress events, the call.
Transcribed(p, resp, settled) ==
  /\ transcript' = [transcript EXCEPT ![p] = ExtractTranscript(resp)]
  /\ utterances' = [utterances EXCEPT ![p] = ExtractUtterances(resp)]
  /\ diarized_text' = [diarized_text EXCEPT
                         ![p] = DiarizedText(ExtractTranscript(resp),
                                             ExtractUtterances(resp))]
  /\ trace' = [trace EXCEPT ![p] = @ \o << settled >> \o AfterTranscription]
  /\ pc' = [pc EXCEPT ![p] = "gen_record"]
  /\ UNCHANGED << text, doc, now, kind, files, uploadErr, filePath, audioOwner, minutaResp,
                  minuta, resumen_md, pdfName, stream, timer, payload >>

\* deepgram.transcription.preRecorded resolves.
TranscriptionResolves(p) ==
  /\ EventLoopFree
  /\ pc[p] = "transcribing"
  /\ \E resp \in DgResponses : Transcribed(p, resp, E("ret:deepgram", ""))

\* A transcription call without its own try/catch: the rejection reaches the
\* outer catch.
TranscriptionRejected_Fatal(p) ==
  /\ Leave(p, files, << E("err:deepgram", DgErrMsg) >> \o CatchEntries(DgErrMsg))
  /\ UNCHANGED << text, doc, now, kind, uploadErr, filePath, pdfName, stream, timer, payload >>

\* The handler after a rejected transcription call: the inner catch logs a
\* warning and dgResp stays null.
TranscriptionRejected(p) == Transcribed(p, NullResp, E("err:deepgram", DgErrMsg))

\* deepgram.transcription.preRecorded rejects.
TranscriptionRejects(p) ==
  /\ EventLoopFree
  /\ pc[p] = "transcribing"
  /\ TranscriptionRejected(p)

\* The summary call issued before the progress event that announces it.
AfterRecord_CallFirst == << E("call:summary", ""), E("sse:progress", "summary") >>

\* What follows the resolved structured-record call, up to the summary call.
AfterRecord == << E("sse:progress", "summary"), E("call:summary", "") >>

\* openai.chat.completions.create (minutaResp) resolves.
RecordResolves(p) ==
  /\ EventLoopFree
  /\ pc[p] = "gen_record"
  /\ \E resp \in MinutaResponses :
       minutaResp' = [minutaResp EXCEPT ![p] = resp]
  /\ trace' = [trace EXCEPT ![p] = @ \o << E("ret:record", "") >> \o AfterRecord]
  /\ pc' = [pc EXCEPT ![p] = "gen_summary"]
  /\ UNCHANGED << text, doc, now, kind, files, uploadErr, filePath, audioOwner, transcript,
                  utterances, diarized_text, minuta, resumen_md, pdfName,
                  stream, timer, payload >>

\* A generation call whose rejection is swallowed: the handler goes on to the
\* summary call.
GenerationRejected_Swallowed(p, settled) ==
  /\ trace' = [trace EXCEPT
                 ![p] = @ \o << settled, E("sse:progress", "summary"),
                                E("call:summary", "") >>]
  /\ pc' = [pc EXCEPT ![p] = "gen_summary"]
  /\ UNCHANGED << text, doc, now, files, kind, uploadErr, filePath, pdfName, stream, timer,
                  payload, locals >>

\* The handler after a rejected generation call: the rejection is thrown at the
\* await and caught by the outer catch.
GenerationRejected(p, settled) ==
  /\ Leave(p, files, << settled >> \o CatchEntries(settled.v))
  /\ UNCHANGED << text, doc, now, kind, uploadErr, filePath, pdfName, stream, timer, payload >>

\* openai.chat.completions.create (minutaResp) rejects.
RecordRejects(p) ==
  /\ EventLoopFree
  /\ pc[p] = "gen_record"
  /\ GenerationRejected(p, E("err:record", RecordErrMsg))

\* openai.chat.completions.create (resumenResp) rejects.
SummaryRejects(p) ==
  /\ EventLoopFree
  /\ pc[p] = "gen_summary"
  /\ GenerationRejected(p, E("err:summary", SummaryErrMsg))

\* ------------------------------------------------------------ rendering
\* What the synchronous part of the render promise's executor can do: return
\* (the walk is done and doc.end() called), throw, or not return (the layout
\* engine loops on the input).
WalkOutcomes == {"returns", "throws", "stalls"}

\* fs.createWriteStream(pdfPath): the document file is created, over a file of
\* that name if there is one.
CreateDoc(fs, r, n) == WriteFile(fs, n, [owner |-> r, kind |-> "doc", complete |-> FALSE])

\* The write stream after the executor: written to and ended, or left open by
\* an executor that threw before doc.end().
StreamAfter(walk) == IF walk = "throws" THEN "abandoned" ELSE "writing"

\* The timer of the race: Promise.race's second element is evaluated, and
\* setTimeout called, only once the first promise's executor has returned or
\* thrown.
TimerAfter(walk) == IF walk = "stalls" THEN "none" ELSE "armed"

\* What the handler writes between the summary call and the race.
BeforeRender == << E("sse:progress", "pdf"), E("call:render", "") >>

\* The complete payload.
CompletePayload(p) ==
  [sent |-> TRUE, minuta |-> minuta[p], resumen_md |-> resumen_md[p],
   pdf_url |-> PdfUrl(pdfName[p]), speakers |-> Speakers(utterances[p]),
   transcript |-> transcript[p], utterances_count |-> Len(utterances[p])]

\* openai.chat.completions.create (resumenResp) resolves: the record is parsed,
\* the markup taken, the render announced, the document stream created, the
\* markup walked and the race started.
SummaryResolves(p) ==
  /\ EventLoopFree
  /\ pc[p] = "gen_summary"
  /\ \E resp \in ResumenResponses, walk \in WalkOutcomes :
       LET m == ParseMinuta(minutaResp[p])
           s == ResumenMd(resp)
           n == PdfNameOf(filePath[p])
           ret == << E("ret:summary", Shape(resp)) >>
       IN  IF m.threw \/ s.threw
           THEN /\ Leave(p, files, ret \o CatchEntries(TypeErrMsg))
                /\ UNCHANGED << pdfName, stream, timer >>
           ELSE /\ pdfName' = [pdfName EXCEPT ![p] = n]
                /\ stream' = [stream EXCEPT ![p] = StreamAfter(walk)]
                /\ timer' = [timer EXCEPT ![p] = TimerAfter(walk)]
                /\ IF walk = "throws"
                   THEN Leave(p, CreateDoc(files, p, n),
                              ret \o BeforeRender \o CatchEntries(WalkErrMsg))
                   ELSE /\ minuta' = [minuta EXCEPT
                                        ![p] = [kind |-> m.kind, of |-> m.of]]
                        /\ resumen_md' = [resumen_md EXCEPT ![p] = s.md]
                        /\ files' = CreateDoc(files, p, n)
                        /\ trace' = [trace EXCEPT ![p] = @ \o ret \o BeforeRender]
                        /\ pc' = [pc EXCEPT ![p] = IF walk = "stalls" THEN "stalled"
                                                   ELSE "rendering"]
                        /\ UNCHANGED << audioOwner, transcript, utterances,
                                        diarized_text, minutaResp >>
  /\ UNCHANGED << text, doc, now, kind, uploadErr, filePath, payload >>

\* ----------------------------------------------------- /api/regenerate-pdf
\* req.body.markdown values.
MarkdownInputs == { Str("# Acta"), Str(""), Undefined, [tag |-> "number", s |-> ""] }

\* !markdown || typeof markdown !== 'string'
BadMarkdown(md) == md.tag # "string" \/ md.s = ""

\* The regenerate handler up to its await: validation, then the document stream,
\* the walk and the race.
Regenerate(g) ==
  /\ EventLoopFree
  /\ Arrives(g)
  /\ kind' = [kind EXCEPT ![g] = "regenerate"]
  /\ \E md \in MarkdownInputs, walk \in WalkOutcomes, t \in Readings :
       LET n == RegenName(t)
       IN  IF BadMarkdown(md)
           THEN /\ trace' = [trace EXCEPT ![g] = @ \o << E("json:400", "markdown") >>]
                /\ pc' = [pc EXCEPT ![g] = "rejected"]
                /\ UNCHANGED << now, files, pdfName, stream, timer >>
           ELSE /\ now' = t
                /\ files' = CreateDoc(files, g, n)
                /\ pdfName' = [pdfName EXCEPT ![g] = n]
                /\ stream' = [stream EXCEPT ![g] = StreamAfter(walk)]
                /\ timer' = [timer EXCEPT ![g] = TimerAfter(walk)]
                /\ trace' = [trace EXCEPT
                               ![g] = @ \o << E("call:render", "") >> \o
                                      IF walk = "throws"
                                      THEN << E("json:500", WalkErrMsg) >>
                                      ELSE << >>]
                /\ pc' = [pc EXCEPT ![g] = CASE walk = "returns" -> "rendering"
                                             [] walk = "throws" -> "done"
                                             [] walk = "stalls" -> "stalled"]
  /\ UNCHANGED << text, doc, uploadErr, filePath, audioOwner, transcript, utterances,
                  diarized_text, minutaResp, minuta, resumen_md, payload >>

\* -------------------------------------------------------------- the race
\* The race rejects with `detail` (the timer's error or the stream's): the
\* pipeline's catch and finally run, the regenerate handler answers 500.
RaceRejected(r, detail) ==
  IF kind[r] = "process"
  THEN /\ Leave(r, files, CatchEntries(detail))
       /\ UNCHANGED payload
  ELSE /\ trace' = [trace EXCEPT ![r] = @ \o << E("json:500", detail) >>]
       /\ pc' = [pc EXCEPT ![r] = "done"]
       /\ UNCHANGED << files, payload, locals >>

\* The race resolves: the pipeline sends complete with the locator and cleans
\* up, the regenerate handler answers { pdf_url }.
RaceResolved(r, fs) ==
  IF kind[r] = "process"
  THEN /\ Leave(r, fs, CompleteEntries)
       /\ payload' = [payload EXCEPT ![r] = CompletePayload(r)]
  ELSE /\ trace' = [trace EXCEPT ![r] = @ \o << E("json:200", "pdf_url") >>]
       /\ pc' = [pc EXCEPT ![r] = "done"]
       /\ files' = fs
       /\ payload' = [payload EXCEPT ![r] = [NoPayload EXCEPT !.sent = TRUE,
                                                             !.pdf_url = PdfUrl(pdfName[r])]]
       /\ UNCHANGED locals

\* A race whose loser still reports: the late settlement writes an error event.
Ignored_Reports(r) ==
  /\ trace' = [trace EXCEPT ![r] = @ \o << E("sse:error", "late") >>]
  /\ UNCHANGED << pc, payload, locals >>

\* The race is settled already: resolve or reject of its other promise changes
\* nothing, Promise.race having attached its reactions to both promises.
Ignored(r) == UNCHANGED << pc, trace, payload, locals >>

\* The other requests whose write stream is open on the file named n and has
\* not finished writing it.
StillWriting(r, n) ==
  { q \in Reqs \ {r} : stream[q] = "writing" /\ pdfName[q] = n }

\* A stream on the file named n has written its last byte: the file is
\* completely written unless another stream is still writing to it.
Flushed(fs, n, others) ==
  IF Exists(fs, n) THEN [fs EXCEPT ![n].complete = (others = {})] ELSE fs

\* GET /download/:name: the file of that name is sent, or 404 'Not found'.
Download(fs, url) ==
  IF Exists(fs, RouteParam(url)) THEN "200" ELSE "404"

\* The write stream emits 'finish'. The promise resolves; that settles the race
\* only if the timer has not settled it before.
StreamFinishes(r) ==
  /\ EventLoopFree
  /\ stream[r] = "writing"
  /\ stream' = [stream EXCEPT ![r] = "finished"]
  /\ IF pc[r] = "rendering"
     THEN RaceResolved(r, Flushed(files, pdfName[r], StillWriting(r, pdfName[r])))
     ELSE /\ files' = Flushed(files, pdfName[r], StillWriting(r, pdfName[r]))
          /\ Ignored(r)
  /\ UNCHANGED << text, doc, now, kind, uploadErr, filePath, pdfName, timer >>

\* The write stream emits 'error'.
StreamFails(r) ==
  /\ EventLoopFree
  /\ stream[r] = "writing"
  /\ stream' = [stream EXCEPT ![r] = "errored"]
  /\ IF pc[r] = "rendering"
     THEN RaceRejected(r, StreamErrMsg)
     ELSE /\ UNCHANGED files
          /\ Ignored(r)
  /\ UNCHANGED << text, doc, now, kind, uploadErr, filePath, pdfName, timer >>

\* A timer whose callback resolves its promise instead of rejecting it.
TimerExpired_Resolves(r) == RaceResolved(r, files)

\* The timer's callback settles the race: reject(new Error(TimeoutMsg)).
TimerExpired(r) == RaceRejected(r, TimeoutMsg)

\* The 30 s timer fires and rejects its promise; that settles the race only if
\* the stream has not settled it before.
TimerFires(r) ==
  /\ EventLoopFree
  /\ timer[r] = "armed"
  /\ IF pc[r] = "rendering"
     THEN /\ timer' = [timer EXCEPT ![r] = "expired"]
          /\ TimerExpired(r)
     ELSE /\ timer' = [timer EXCEPT ![r] = "late"]
          /\ UNCHANGED files
          /\ Ignored(r)
  /\ UNCHANGED << text, doc, now, kind, uploadErr, filePath, pdfName, stream >>

\* ---------------------------------------------------------- specification
Next ==
  \/ \E p \in Reqs : UploadFile(p)
  \/ \E p \in Reqs : RejectUpload(p)
  \/ \E p \in Reqs : BeginProcess(p)
  \/ \E p \in Reqs : TranscriptionResolves(p)
  \/ \E p \in Reqs : TranscriptionRejects(p)
  \/ \E p \in Reqs : RecordResolves(p)
  \/ \E p \in Reqs : RecordRejects(p)
  \/ \E p \in Reqs : SummaryResolves(p)
  \/ \E p \in Reqs : SummaryRejects(p)
  \/ \E g \in Reqs : Regenerate(g)
  \/ \E r \in Reqs : StreamFinishes(r)
  \/ \E r \in Reqs : StreamFails(r)
  \/ \E r \in Reqs : TimerFires(r)

Spec == Init /\ [][Next]_vars

\* ------------------------------------- the transcript post-processing alone
\* The utterances a response may carry: with speaker 0, 1 or 2 or without a
\* speaker; with both times, without a start, without an end.
Utterances ==
  { Utt(has, sp, tm[1], tm[2], tm[3]) :
      has \in BOOLEAN, sp \in 0..2,
      tm \in { << Num(0), Num(2506), "Hola" >>,
               << NotNum, Num(3000), "Buenos dias" >>,
               << Num(3100), NotNum, "Adios" >> } }

\* The sequences of 0..n elements of S.
SeqUpTo(S, n) == UNION { [1..k -> S] : k \in 0..n }

\* What dgResp can be after the inner try/catch: null, a response without its
\* utterances or without its transcript, a complete one.
ProviderResponses ==
  { NullResp } \cup
  { DgResp(hasT, t, hasU, us) :
      hasT \in BOOLEAN, t \in {"", "hola buenos dias"}, hasU \in BOOLEAN,
      us \in SeqUpTo({ u \in Utterances : u.hasSpeaker \/ u.speaker = 0 }, MaxUtts) }

\* req.body.language || DEEPGRAM_LANGUAGE
Languages == {"es", "en"}

\* minutaUserPrompt: the literal parts of the language's variant around the
\* diarized text.
MinutaUserPrompt(language, d) ==
  [head |-> IF language = "es"
            THEN << "A continuacion tienes la transcripcion diarizada", "---" >>
            ELSE << "Below is the diarized transcript", "---" >>,
   diarized_text |-> d,
   tail |-> IF language = "es"
            THEN << "---", "Genera una MINUTA estructurada (JSON)", "Se fiel al contenido" >>
            ELSE << "---", "Generate a structured MINUTES (JSON)", "Be faithful to the content" >>]

\* resumenUserPrompt: the diarized text, then the language's instructions.
ResumenUserPrompt(language, d) ==
  [head |-> << >>,
   diarized_text |-> d,
   tail |-> IF language = "es"
            THEN << "Redacta una minuta ejecutiva en Markdown con:" >>
            ELSE << "Write an executive summary in Markdown" >>]

NoPrompt == [head |-> << >>, diarized_text |-> NoDiarized, tail |-> << >>]

\* The post-processing starts from the settled transcription call.
InitText ==
  /\ Idle
  /\ doc = NoDoc
  /\ \E resp \in ProviderResponses, l \in Languages :
       text = [stage |-> "response", dgResp |-> resp, language |-> l,
               transcript |-> "", utterances |-> << >>, diarized_text |-> NoDiarized,
               minutaUserPrompt |-> NoPrompt, resumenUserPrompt |-> NoPrompt,
               speakers |-> {}, utterances_count |-> 0]

\* transcript and utterances are taken from dgResp.
Extract ==
  /\ text.stage = "response"
  /\ text' = [text EXCEPT !.stage = "extracted",
                          !.transcript = ExtractTranscript(text.dgResp),
                          !.utterances = ExtractUtterances(text.dgResp)]
  /\ UNCHANGED << server, doc >>

\* diarized_text is built.
Diarize ==
  /\ text.stage = "extracted"
  /\ text' = [text EXCEPT !.stage = "diarized",
                          !.diarized_text = DiarizedText(text.transcript, text.utterances)]
  /\ UNCHANGED << server, doc >>

\* The user payloads of the two generation calls are built.
Prompt ==
  /\ text.stage = "diarized"
  /\ text' = [text EXCEPT
                !.stage = "prompted",
                !.minutaUserPrompt = MinutaUserPrompt(text.language, text.diarized_text),
                !.resumenUserPrompt = ResumenUserPrompt(text.language, text.diarized_text)]
  /\ UNCHANGED << server, doc >>

\* The speakers and the utterance count of the complete payload are computed.
Report ==
  /\ text.stage = "prompted"
  /\ text' = [text EXCEPT !.stage = "reported",
                          !.speakers = Speakers(text.utterances),
                          !.utterances_count = Len(text.utterances)]
  /\ UNCHANGED << server, doc >>

NextText == Extract \/ Diarize \/ Prompt \/ Report

SpecText == InitText /\ [][NextText]_vars

\* ------------------------------------------------ renderMarkdownToPDF alone
\* The body text size and the indent of a list line, in points.
BodySize == 11
ListIndent == 20

\* sizes = { 1: 18, 2: 16, 3: 14, 4: 13, 5: 12, 6: 11 }
HeadingSizes ==
  [l \in 1..6 |-> CASE l = 1 -> 18 [] l = 2 -> 16 [] l = 3 -> 14
                    [] l = 4 -> 13 [] l = 5 -> 12 [] l = 6 -> 11]

\* parseInt(token.tag.replace('h', ''), 10)
HeadingLevel(tag) ==
  CASE tag = "h1" -> 1 [] tag = "h2" -> 2 [] tag = "h3" -> 3
    [] tag = "h4" -> 4 [] tag = "h5" -> 5 [] tag = "h6" -> 6

\* A markdown-it token: a block token, or a child of an inline token.
Tok(type, tag, children, content) ==
  [type |-> type, tag |-> tag, children |-> children, content |-> content]

T(type) == Tok(type, "", << >>, "")

\* The children of an inline token: plain text, text with a bold run (the
\* tokenizer leaves an empty text token after a closing marker), text that is
\* one bold run, an image alone.
PlainRun == << Tok("text", "", << >>, "Acuerdos") >>
MixedRun ==
  << Tok("text", "", << >>, "Responsable: "), T("strong_open"),
     Tok("text", "", << >>, "Ana"), T("strong_close"), T("text") >>
BoldRun ==
  << T("text"), T("strong_open"), Tok("text", "", << >>, "Urgente"),
     T("strong_close"), T("text") >>
ImageRun == << Tok("image", "img", << >>, "") >>
InlineRuns == { PlainRun, MixedRun, BoldRun, ImageRun }

Inline(children) == Tok("inline", "", children, "")

\* The token streams of the blocks md.parse produces.
Heading(tag, children) ==
  << Tok("heading_open", tag, << >>, ""), Inline(children),
     Tok("heading_close", tag, << >>, "") >>

Paragraph(children) ==
  << T("paragraph_open"), Inline(children), T("paragraph_close") >>

ListItem(body) == << T("list_item_open") >> \o body \o << T("list_item_close") >>

List(list, items) == << T(list \o "_open") >> \o items \o << T(list \o "_close") >>

ListKinds == {"bullet_list", "ordered_list"}

\* "| a |" over "| b |": one header row and one body row of one cell.
Table ==
  << T("table_open"), T("thead_open"), T("tr_open"), T("th_open"),
     Inline(PlainRun), T("th_close"), T("tr_close"), T("thead_close"),
     T("tbody_open"), T("tr_open"), T("td_open"), Inline(PlainRun),
     T("td_close"), T("tr_close"), T("tbody_close"), T("table_close") >>

\* The top-level blocks of this model: the six headings, a heading with a bold
\* run, paragraphs, one-item lists, two-item lists whose first item holds an
\* inner list, a table, a rule, a fenced code block, a block quote.
Blocks ==
  { Heading(tag, PlainRun) : tag \in {"h1", "h2", "h3", "h4", "h5", "h6"} } \cup
  { Heading("h2", MixedRun) } \cup
  { Paragraph(c) : c \in InlineRuns } \cup
  { List(k, ListItem(Paragraph(PlainRun))) : k \in ListKinds } \cup
  { List(k, ListItem(Paragraph(PlainRun) \o
                       List(inner, ListItem(Paragraph(PlainRun)))) \o
               ListItem(Paragraph(MixedRun))) : k \in ListKinds, inner \in ListKinds } \cup
  { Table, << T("hr") >>, << Tok("fence", "code", << >>, "npm start") >>,
    << T("blockquote_open") >> \o Paragraph(PlainRun) \o << T("blockquote_close") >> }

\* The token stream of a sequence of blocks.
RECURSIVE Flatten(_)
Flatten(blocks) ==
  IF blocks = << >> THEN << >> ELSE Head(blocks) \o Flatten(Tail(blocks))

\* md.parse(markdown, {}) over the markup documents of this model.
Documents == { Flatten(bs) : bs \in SeqUpTo(Blocks, MaxBlocks) }

\* inlineToSegments(children): the loop from child k on, with its buf (the
\* pieces appended so far), its bold flag and the segments pushed so far.
RECURSIVE Segments(_, _, _, _, _)
Segments(children, k, buf, bold, segments) ==
  LET pushed == IF buf # << >> THEN Append(segments, [text |-> buf, bold |-> bold])
                ELSE segments
  IN  IF k > Len(children) THEN pushed
      ELSE LET c == children[k]
           IN  CASE c.type = "strong_open" -> Segments(children, k + 1, << >>, TRUE, pushed)
                 [] c.type = "strong_close" -> Segments(children, k + 1, << >>, FALSE, pushed)
                 [] c.type = "softbreak" ->
                      Segments(children, k + 1, Append(buf, " "), bold, segments)
                 [] c.type \in {"text", "code_inline"} ->
                      Segments(children, k + 1,
                               IF c.content = "" THEN buf ELSE Append(buf, c.content),
                               bold, segments)
                 [] OTHER -> Segments(children, k + 1, buf, bold, segments)

inlineToSegments(children) == Segments(children, 1, << >>, FALSE, << >>)

\* segments.map(s => s.text).join('')
RECURSIVE Joined(_)
Joined(segments) ==
  IF segments = << >> THEN << >> ELSE Head(segments).text \o Joined(Tail(segments))

\* One call on the PDF document, made while the walker is at token `at`.
TextOp(at, prefix, str, font, size, indent) ==
  [op |-> "text", at |-> at, prefix |-> prefix, str |-> str, font |-> font,
   size |-> size, indent |-> indent, by |-> 0]

MoveDown(at, tenths) ==
  [op |-> "moveDown", at |-> at, prefix |-> FALSE, str |-> << >>, font |-> "",
   size |-> 0, indent |-> 0, by |-> tenths]

Stroke(at) ==
  [op |-> "stroke", at |-> at, prefix |-> FALSE, str |-> << >>, font |-> "",
   size |-> 0, indent |-> 0, by |-> 0]

\* renderMarkdownToPDF is entered after the executor wrote the title and the
\* date line: the document's font is Helvetica at 10 points.
InitRender ==
  /\ Idle
  /\ text = NoText
  /\ \E tokens \in Documents :
       doc = [stage |-> "walking", tokens |-> tokens, i |-> 1, isBullet |-> FALSE,
              inTable |-> FALSE, font |-> "Helvetica", fontSize |-> 10,
              calls |-> << >>]

\* The loop is at a token of one of the types `types`.
At(types) ==
  /\ doc.stage = "walking"
  /\ doc.i <= Len(doc.tokens)
  /\ doc.tokens[doc.i].type \in types

\* The token at the loop's position.
token == doc.tokens[doc.i]

HeadingOpen ==
  /\ At({"heading_open"})
  /\ doc' = [doc EXCEPT !.i = @ + 1,
                        !.fontSize = HeadingSizes[HeadingLevel(token.tag)],
                        !.font = "Helvetica-Bold"]
  /\ UNCHANGED << server, text >>

HeadingClose ==
  /\ At({"heading_close"})
  /\ doc' = [doc EXCEPT !.i = @ + 1,
                        !.calls = Append(@, MoveDown(doc.i, 3)),
                        !.fontSize = BodySize,
                        !.font = "Helvetica"]
  /\ UNCHANGED << server, text >>

ListOpen ==
  /\ At({"bullet_list_open", "ordered_list_open"})
  /\ doc' = [doc EXCEPT !.i = @ + 1, !.isBullet = TRUE]
  /\ UNCHANGED << server, text >>

ListClose ==
  /\ At({"bullet_list_close", "ordered_list_close"})
  /\ doc' = [doc EXCEPT !.i = @ + 1, !.isBullet = FALSE,
                        !.calls = Append(@, MoveDown(doc.i, 3))]
  /\ UNCHANGED << server, text >>

ParagraphClose ==
  /\ At({"paragraph_close"})
  /\ doc' = [doc EXCEPT !.i = @ + 1,
                        !.calls = IF ~doc.isBullet /\ ~doc.inTable
                                  THEN Append(@, MoveDown(doc.i, 4)) ELSE @]
  /\ UNCHANGED << server, text >>

TableOpen ==
  /\ At({"table_open"})
  /\ doc' = [doc EXCEPT !.i = @ + 1, !.inTable = TRUE]
  /\ UNCHANGED << server, text >>

TableClose ==
  /\ At({"table_close"})
  /\ doc' = [doc EXCEPT !.i = @ + 1, !.inTable = FALSE,
                        !.calls = Append(@, MoveDown(doc.i, 3))]
  /\ UNCHANGED << server, text >>

\* An inline token: its segments are drawn by one text call, in bold when any
\* segment is bold, at the body size; the font is Helvetica afterwards.
InlineContent ==
  /\ At({"inline"})
  /\ LET segments == inlineToSegments(token.children)
         hasBold == \E k \in DOMAIN segments : segments[k].bold
         font == IF hasBold THEN "Helvetica-Bold" ELSE "Helvetica"
     IN  IF Len(segments) = 0
         THEN doc' = [doc EXCEPT !.i = @ + 1]
         ELSE doc' = [doc EXCEPT
                        !.i = @ + 1,
                        !.fontSize = BodySize,
                        !.font = "Helvetica",
                        !.calls = Append(@, TextOp(doc.i, doc.isBullet, Joined(segments),
                                                   font, BodySize,
                                                   IF doc.isBullet THEN ListIndent ELSE 0))]
  /\ UNCHANGED << server, text >>

HorizontalRule ==
  /\ At({"hr"})
  /\ doc' = [doc EXCEPT !.i = @ + 1,
                        !.calls = @ \o << MoveDown(doc.i, 5), Stroke(doc.i),
                                          MoveDown(doc.i, 5) >>]
  /\ UNCHANGED << server, text >>

CodeBlock ==
  /\ At({"fence", "code_block"})
  /\ doc' = [doc EXCEPT !.i = @ + 1,
                        !.fontSize = BodySize,
                        !.font = "Helvetica",
                        !.calls = @ \o << TextOp(doc.i, FALSE, << token.content >>,
                                                 "Courier", 10, 10),
                                          MoveDown(doc.i, 3) >>]
  /\ UNCHANGED << server, text >>

\* The token types the loop handles by going on to the next token.
Continued ==
  {"list_item_open", "list_item_close", "paragraph_open", "thead_open",
   "thead_close", "tbody_open", "tbody_close", "tr_open", "tr_close", "th_open",
   "th_close", "td_open", "td_close"}

\* The token types of this model that no branch of the loop matches.
Unmatched == {"blockquote_open", "blockquote_close"}

Skip ==
  /\ At(Continued \cup Unmatched)
  /\ doc' = [doc EXCEPT !.i = @ + 1]
  /\ UNCHANGED << server, text >>

\* The loop ends.
Return ==
  /\ doc.stage = "walking"
  /\ doc.i > Len(doc.tokens)
  /\ doc' = [doc EXCEPT !.stage = "walked"]
  /\ UNCHANGED << server, text >>

NextRender ==
  \/ HeadingOpen \/ HeadingClose \/ ListOpen \/ ListClose \/ ParagraphClose
  \/ TableOpen \/ TableClose \/ InlineContent \/ HorizontalRule \/ CodeBlock
  \/ Skip \/ Return

SpecRender == InitRender /\ [][NextRender]_vars

\* ------------------------------------------------------------ properties
IsProcess(r) == kind[r] = "process"
IsRegenerate(r) == kind[r] = "regenerate"

\* The positions of request r's trace holding an entry of kind k.
Idx(r, k) == { i \in DOMAIN trace[r] : trace[r][i].k = k }
Has(r, k) == Idx(r, k) # {}
HasEntry(r, e) == \E i \in DOMAIN trace[r] : trace[r][i] = e

TerminalKinds == {"sse:complete", "sse:error"}
WriteKinds == {"writeHead", "sse:progress", "sse:complete", "sse:error", "json:400"}
Terminals(r) == { i \in DOMAIN trace[r] : trace[r][i].k \in TerminalKinds }

\* The request passed validation: its handler opened the stream.
Validated(r) == IsProcess(r) /\ Has(r, "writeHead")

OwnUpload(r) ==
  { n \in DOMAIN files : files[n].owner = r /\ files[n].kind = "upload" }

\* C2 as claimed: a pipeline run unlinks its upload exactly once, as its last
\* act, whichever stage it ended in, and once the run has finished its upload
\* is absent from the upload directory.
C2_CleanupAlwaysRemoves ==
  \A r \in Reqs : Validated(r) =>
    LET t == trace[r]
        U == Idx(r, "unlink")
    IN  /\ (pc[r] = "done") <=> (U # {})
        /\ Cardinality(U) <= 1
        /\ \A i \in U :
             /\ i = Len(t) /\ i > 2
             /\ t[i - 1].k = "end" /\ t[i - 2].k \in TerminalKinds
             /\ OwnUpload(r) = {}

\* C2 as amended: a pipeline run calls unlink on its upload exactly once, as
\* its last act, after the terminal event and res.end(), whichever stage it
\* ended in; when that unlink does not throw, the run's upload is absent from
\* the directory from then on; a throwing unlink is swallowed: the terminal
\* event and res.end() stand as written before it, and the file may remain.
C2_CleanupOnce ==
  \A r \in Reqs : Validated(r) =>
    LET t == trace[r]
        U == Idx(r, "unlink")
    IN  /\ (pc[r] = "done") <=> (U # {})
        /\ Cardinality(U) <= 1
        /\ \A i \in U :
             /\ i = Len(t) /\ i > 2
             /\ t[i - 1].k = "end" /\ t[i - 2].k \in TerminalKinds
             /\ t[i].v = "ok" => OwnUpload(r) = {}

\* Cleanup ran after a success and after a failure, once with a throwing unlink.
C2_Witness ==
  \E r, q \in Reqs :
    /\ pc[r] = "done" /\ Has(r, "sse:complete") /\ HasEntry(r, E("unlink", "ok"))
    /\ pc[q] = "done" /\ HasEntry(q, E("sse:error", TimeoutMsg))
    /\ HasEntry(q, E("unlink", "failed"))

\* C3: a rejected transcription call is followed by the two progress events and
\* the structured-record call; the run goes on with an empty transcript and no
\* utterances (the fallback marker as its diarized text), and any error event
\* of the run comes after the record call and is not the transcription's error.
C3_TranscriptionFailureNotFatal ==
  \A r \in Reqs : \A i \in Idx(r, "err:deepgram") :
    LET t == trace[r]
    IN  /\ Len(t) >= i + 3
        /\ << t[i + 1], t[i + 2], t[i + 3] >> = AfterTranscription
        /\ pc[r] # "done" =>
             /\ transcript[r] = "" /\ utterances[r] = << >>
             /\ diarized_text[r] = [flat |-> FallbackMarker, lines |-> << >>]
        /\ payload[r].sent =>
             payload[r].transcript = "" /\ payload[r].utterances_count = 0
        /\ \A j \in Idx(r, "sse:error") : j > i + 3 /\ t[j].v # DgErrMsg

\* A run whose transcription call rejected reached Complete.
C3_Witness ==
  \E r \in Reqs : Has(r, "err:deepgram") /\ Has(r, "sse:complete") /\ payload[r].sent

CallKinds == {"call:deepgram", "call:record", "call:summary", "call:render"}

\* C4: a rejected generation call is followed at once by the terminal error
\* event carrying its message; no call is issued after it (no summary call
\* after a failed record call, no render after either), no document is
\* created, and no complete event is ever written.
C4_GenerationFailureFatal ==
  \A r \in Reqs : \A i \in Idx(r, "err:record") \cup Idx(r, "err:summary") :
    LET t == trace[r]
    IN  /\ Len(t) > i /\ t[i + 1] = E("sse:error", t[i].v)
        /\ \A j \in DOMAIN t : j > i => t[j].k \notin CallKinds
        /\ t[i].k = "err:record" => ~Has(r, "call:summary")
        /\ ~Has(r, "call:render")
        /\ ~Has(r, "sse:complete") /\ ~payload[r].sent
        /\ pdfName[r] = NoName /\ stream[r] = "none"
        /\ ~\E n \in DOMAIN files : files[n].owner = r /\ files[n].kind = "doc"
        /\ pc[r] = "done"

\* One run failed in the record call, another in the summary call.
C4_Witness ==
  \E r, q \in Reqs : Has(r, "err:record") /\ Has(q, "err:summary")

\* C5: when the timer settles the race (it expired before the sink finished),
\* a pipeline run ends with the error event carrying the timeout message and
\* never writes complete, a regenerate call answers 500 with that message and
\* never answers a locator; the timeout message is reported for no other fault.
C5_TimeoutIsError ==
  \A r \in Reqs :
    /\ timer[r] = "expired" =>
         /\ pc[r] = "done" /\ ~payload[r].sent
         /\ IsProcess(r) =>
              HasEntry(r, E("sse:error", TimeoutMsg)) /\ ~Has(r, "sse:complete")
         /\ IsRegenerate(r) =>
              HasEntry(r, E("json:500", TimeoutMsg)) /\ ~Has(r, "json:200")
    /\ \A i \in Idx(r, "sse:error") \cup Idx(r, "json:500") :
         trace[r][i].v = TimeoutMsg => timer[r] = "expired"

\* The timer expired first in a pipeline run and in a regenerate call.
C5_Witness ==
  \E r, q \in Reqs :
    /\ IsProcess(r) /\ timer[r] = "expired" /\ stream[r] = "writing"
    /\ IsRegenerate(q) /\ timer[q] = "expired"

RenderingStage == {"rendering", "stalled"}

\* C6: a request in the Rendering stage can always leave it by the timer: the
\* timer of its race is armed and the event loop is free to run its callback,
\* also while the layout engine does not return from the render walk.
C6_TimerCanExpire ==
  \A r \in Reqs : pc[r] \in RenderingStage => ENABLED TimerFires(r)

\* C7: when the summary call resolved with a usable text and the structured
\* record's response is not well-formed JSON text (malformed text, null or
\* absent text, no choices entry), the record becomes the wrapper holding that
\* response's text under raw, the render is started, and no exception of the
\* parse reaches the outer catch.
C7_MalformedRecordWrapped ==
  [][ \A r \in Reqs :
        ( /\ pc[r] = "gen_summary"
          /\ Shape(minutaResp[r]) # "json"
          /\ HasEntry(r, E("ret:summary", "text"))' )
        => ( /\ Has(r, "call:render")'
             /\ ~HasEntry(r, E("sse:error", TypeErrMsg))'
             /\ pc'[r] # "done" =>
                  minuta'[r] = [kind |-> "raw", of |-> minutaResp[r].content] )
    ]_vars

\* The progress events of a run, in pipeline order.
ProgressOrder == << "transcribing", "transcribed", "record", "summary", "pdf" >>

\* The values of the progress events in t, in order.
RECURSIVE ProgressOf(_)
ProgressOf(t) ==
  IF t = << >> THEN << >>
  ELSE IF Head(t).k = "sse:progress"
       THEN << Head(t).v >> \o ProgressOf(Tail(t))
       ELSE ProgressOf(Tail(t))

\* In request r's trace, every entry of kind k has an entry e before it.
After(r, k, e) ==
  \A i \in Idx(r, k) : \E j \in DOMAIN trace[r] : j < i /\ trace[r][j] = e

\* In request r's trace, every entry of kind k has one of kinds ks before it.
AfterKind(r, k, ks) ==
  \A i \in Idx(r, k) : \E j \in DOMAIN trace[r] : j < i /\ trace[r][j].k \in ks

\* C8: the stages of a run follow one another: the record call is issued after
\* the transcription call settled, the summary call after the record call
\* resolved, the render after the summary call resolved; each call is issued
\* once, after the progress event announcing it; and the progress events are
\* an initial part of the pipeline order.
C8_StagesSequential ==
  \A r \in Reqs : IsProcess(r) =>
    /\ \A k \in CallKinds : Cardinality(Idx(r, k)) <= 1
    /\ AfterKind(r, "call:record", {"ret:deepgram", "err:deepgram"})
    /\ AfterKind(r, "call:summary", {"ret:record"})
    /\ AfterKind(r, "call:render", {"ret:summary"})
    /\ AfterKind(r, "ret:deepgram", {"call:deepgram"})
    /\ AfterKind(r, "ret:record", {"call:record"})
    /\ AfterKind(r, "ret:summary", {"call:summary"})
    /\ After(r, "call:deepgram", E("sse:progress", "transcribing"))
    /\ After(r, "call:record", E("sse:progress", "record"))
    /\ After(r, "call:summary", E("sse:progress", "summary"))
    /\ After(r, "call:render", E("sse:progress", "pdf"))
    /\ LET ps == ProgressOf(trace[r])
       IN  Len(ps) <= Len(ProgressOrder) /\ ps = SubSeq(ProgressOrder, 1, Len(ps))

\* A run went through every stage.
C8_Witness ==
  \E r \in Reqs :
    /\ Has(r, "sse:complete")
    /\ ProgressOf(trace[r]) = ProgressOrder

\* The request has arrived and its handler has not returned.
Live(r) == pc[r] \notin {"new", "rejected", "done"}

\* C9: requests do not touch one another's files: two live requests never
\* share an upload name or a document name, a live pipeline run's upload is in
\* the directory as that run's own file (no other request deleted or overwrote
\* it), a run reads its own upload only, and every document written is still
\* its writer's.
C9_Isolation ==
  \A r \in Reqs :
    /\ (IsProcess(r) /\ Live(r) /\ filePath[r] # NoName) =>
         Exists(files, filePath[r]) /\ files[filePath[r]].owner = r
    /\ audioOwner[r] \subseteq {r}
    /\ pdfName[r] # NoName =>
         Exists(files, pdfName[r]) /\ files[pdfName[r]].owner = r
    /\ \A q \in Reqs \ {r} :
         (Live(r) /\ Live(q)) =>
           /\ filePath[r] # NoName => filePath[r] # filePath[q]
           /\ pdfName[r] # NoName => pdfName[r] # pdfName[q]

\* C10: a regenerate call calls neither the transcription nor the generation
\* collaborator; its document has a name no other request's document has, so
\* no existing document is overwritten by it; and the locator it answers is
\* that document's.
C10_RegenerateOnlyRenders ==
  \A g \in Reqs : IsRegenerate(g) =>
    /\ ~Has(g, "call:deepgram") /\ ~Has(g, "call:record") /\ ~Has(g, "call:summary")
    /\ Has(g, "json:200") => RouteParam(payload[g].pdf_url) = pdfName[g] /\ pdfName[g] # NoName
    /\ \A q \in Reqs \ {g} :
         pdfName[q] # NoName =>
           /\ pdfName[q] # pdfName[g]
           /\ Exists(files, pdfName[q]) /\ files[pdfName[q]].owner # g

\* The files of the upload directory that request r wrote.
FilesOf(r) == { n \in DOMAIN files : files[n].owner = r }

\* The /api/process request failed validation: multer handed an error to its
\* callback, or there is no req.file.
FailsValidation(r) ==
  IsProcess(r) /\ pc[r] \in {"parsed", "rejected"} /\
  (uploadErr[r] # "" \/ filePath[r] = NoName)

\* C11: a request that fails validation (no file, an oversized file, a missing
\* or non-string markdown) is answered with one synchronous 400 and nothing
\* else: the event stream is never opened, no event is written, no collaborator
\* is called, no render is started, and no file of the request is in the upload
\* directory; and no pipeline run starts from a failed validation.
C11_RejectedBeforePipeline ==
  \A r \in Reqs :
    /\ FailsValidation(r) => FilesOf(r) = {}
    /\ (FailsValidation(r) /\ pc[r] = "parsed") => trace[r] = <<>>
    /\ pc[r] = "rejected" =>
         /\ Len(trace[r]) = 1 /\ trace[r][1].k = "json:400"
         /\ FilesOf(r) = {}
         /\ pdfName[r] = NoName /\ stream[r] = "none" /\ timer[r] = "none"
         /\ ~payload[r].sent
         /\ IsProcess(r) => FailsValidation(r)
    /\ Validated(r) => uploadErr[r] = "" /\ filePath[r] # NoName

\* An oversized upload and a regenerate call without markdown were rejected.
C11_Witness ==
  \E r, g \in Reqs :
    /\ IsProcess(r) /\ pc[r] = "rejected" /\ uploadErr[r] = "LIMIT_FILE_SIZE"
    /\ IsRegenerate(g) /\ pc[g] = "rejected"

\* C17: when the complete event has been sent, the document's write stream has
\* emitted 'finish' and not 'error', and from then on GET on the event's
\* locator answers with a document file that is completely written.
C17_CompleteMeansWritten ==
  \A r \in Reqs : (IsProcess(r) /\ payload[r].sent) =>
    /\ stream[r] = "finished"
    /\ Download(files, payload[r].pdf_url) = "200"
    /\ files[RouteParam(payload[r].pdf_url)].kind = "doc"
    /\ files[RouteParam(payload[r].pdf_url)].complete

\* Request r's promise settles after the race was settled: its timer fires
\* late, or its stream finishes or fails after the timer expired.
LoserSettles(r) ==
  \/ timer[r] = "armed" /\ timer'[r] = "late"
  \/ pc[r] # "rendering" /\ stream[r] = "writing" /\ stream'[r] \in {"finished", "errored"}

\* C18: the step in which the loser of a race settles writes nothing to any
\* response, sends no payload and moves no request; in the directory it
\* changes at most the written-completely mark of the loser's own document.
C18_LoserHasNoEffect ==
  [][\A r \in Reqs : LoserSettles(r) =>
       /\ trace' = trace /\ pc' = pc /\ payload' = payload
       /\ DOMAIN files' = DOMAIN files
       /\ \A n \in DOMAIN files : n # pdfName[r] => files'[n] = files[n]]_vars

\* A timer fired after its render had completed the request, and a render
\* finished after its timer had failed the request.
C18_Witness ==
  \E r, q \in Reqs :
    /\ timer[r] = "late" /\ Has(r, "sse:complete")
    /\ timer[q] = "expired" /\ stream[q] = "finished" /\ HasEntry(q, E("sse:error", TimeoutMsg))

\* The post-processing run has built the diarized text.
HasDiarized == text.stage \in {"diarized", "prompted", "reported"}

\* The time t is written with two decimals and the unit.
TwoDecimalsAndUnit(t) == Len(t.digits) = 3 /\ t.unit = "s"

\* C12: for a non-empty utterance sequence the diarized text has one line per
\* utterance, in the utterances' order (line i carries utterance i's text), and
\* both times of every line have two decimals and the trailing "s", whatever
\* the utterance's start and end are.
C12_OneLinePerUtterance ==
  (HasDiarized /\ Len(text.utterances) > 0) =>
    LET lines == text.diarized_text.lines
    IN  /\ Len(lines) = Len(text.utterances)
        /\ \A i \in DOMAIN lines :
             /\ lines[i].text = text.utterances[i].transcript
             /\ TwoDecimalsAndUnit(lines[i].start)
             /\ TwoDecimalsAndUnit(lines[i].end)

\* C13: with no utterance (the call failed, the response has no utterances or
\* an empty list) the diarized text is the flat transcript when that is not
\* empty and the fallback marker otherwise; with at least one utterance the
\* flat transcript is not used; and both user payloads carry the diarized text
\* as it was built.
C13_FlatFallback ==
  /\ (text.stage # "none" /\ text.stage # "response") =>
        /\ (text.dgResp.isNull \/ ~text.dgResp.hasUtterances) => text.utterances = << >>
        /\ ~text.dgResp.isNull /\ text.dgResp.hasUtterances =>
              text.utterances = text.dgResp.utterances
        /\ text.dgResp.isNull => text.transcript = ""
  /\ HasDiarized =>
        /\ Len(text.utterances) = 0 =>
              /\ text.diarized_text.lines = << >>
              /\ text.transcript # "" => text.diarized_text.flat = text.transcript
              /\ text.transcript = "" => text.diarized_text.flat = FallbackMarker
        /\ Len(text.utterances) > 0 =>
              /\ text.diarized_text.flat = ""
              /\ text.diarized_text.lines # << >>
  /\ text.stage \in {"prompted", "reported"} =>
        /\ text.minutaUserPrompt.diarized_text = text.diarized_text
        /\ text.resumenUserPrompt.diarized_text = text.diarized_text

\* A partial response (its utterances under another key than the one read, its
\* transcript in place) gave the flat transcript to both payloads.
C13_Witness ==
  /\ text.stage = "reported"
  /\ ~text.dgResp.isNull /\ ~text.dgResp.hasUtterances
  /\ text.dgResp.utterances # << >> /\ text.dgResp.hasTranscript
  /\ text.minutaUserPrompt.diarized_text.flat = "hola buenos dias"
  /\ text.resumenUserPrompt.diarized_text.flat = "hola buenos dias"

\* C14: on the diarized lines of one response, the label of an utterance
\* without a speaker differs from the label of every utterance with one.
C14_SynthesizedLabelsDistinct ==
  HasDiarized =>
    \A i, j \in DOMAIN text.diarized_text.lines :
      (~text.utterances[i].hasSpeaker /\ text.utterances[j].hasSpeaker) =>
        text.diarized_text.lines[i].speaker # text.diarized_text.lines[j].speaker

\* C19: the speakers of the complete payload are the labels of the diarized
\* lines, and the utterance count is the number of lines.
C19_SpeakersMatchLines ==
  text.stage = "reported" =>
    /\ text.speakers = { text.diarized_text.lines[i].speaker :
                           i \in DOMAIN text.diarized_text.lines }
    /\ text.utterances_count = Len(text.diarized_text.lines)

\* The walker is running or has run.
Rendering == doc.stage # "none"

\* The number of tokens before position i whose type is in `types`.
Before(i, types) == Cardinality({ j \in 1..(i - 1) : doc.tokens[j].type \in types })

\* How many lists, and how many tables, are open at token i.
ListDepth(i) ==
  Before(i, {"bullet_list_open", "ordered_list_open"}) -
  Before(i, {"bullet_list_close", "ordered_list_close"})
TableDepth(i) == Before(i, {"table_open"}) - Before(i, {"table_close"})

\* The calls drawing the inline run that is token i.
DrawsOf(i) == { k \in DOMAIN doc.calls : doc.calls[k].op = "text" /\ doc.calls[k].at = i }

\* C15: the inline run of a heading of level L is drawn in Helvetica-Bold at
\* the size the level table gives for L, and once the heading is closed the
\* document is back at Helvetica, 11 points.
C15_HeadingDrawnAtLevelSize ==
  Rendering =>
    \A i \in DOMAIN doc.tokens :
      /\ (doc.tokens[i].type = "inline" /\ i > 1 /\ doc.tokens[i - 1].type = "heading_open") =>
            \A k \in DrawsOf(i) :
              /\ doc.calls[k].font = "Helvetica-Bold"
              /\ doc.calls[k].size = HeadingSizes[HeadingLevel(doc.tokens[i - 1].tag)]
      /\ (doc.tokens[i].type = "heading_close" /\ doc.i = i + 1) =>
            doc.font = "Helvetica" /\ doc.fontSize = BodySize

\* C16: an inline run is drawn with the bullet prefix, at the list indent,
\* exactly when a list is open at its token; and a paragraph close adds its
\* gap only where no list and no table is open.
C16_PrefixInsideLists ==
  Rendering =>
    /\ \A i \in DOMAIN doc.tokens : doc.tokens[i].type = "inline" =>
         \A k \in DrawsOf(i) :
           /\ doc.calls[k].prefix <=> ListDepth(i) > 0
           /\ doc.calls[k].indent = IF ListDepth(i) > 0 THEN ListIndent ELSE 0
    /\ \A k \in DOMAIN doc.calls :
         (doc.calls[k].op = "moveDown" /\
          doc.tokens[doc.calls[k].at].type = "paragraph_close") =>
           ListDepth(doc.calls[k].at) = 0 /\ TableDepth(doc.calls[k].at) = 0

====
